---- MODULE Spec2Model ----
(***************************************************************************)
(* The LRC lyric parser (src/src/js/lyrics-parser.js) and the audio player *)
(* that drives it (src/src/js/audio-player.js).  ParserSpec is the parser  *)
(* called directly; TimeSpec is a new parser given one timed line; Spec is *)
(* the player: track changes with their lyric fetch and preload, playback, *)
(* clock ticks and seeks.  ThemeSpec is the theme switcher                 *)
(* (src/unnamed/part_001): startup from the saved theme and switchTheme    *)
(* with its background preload and its two fades; ThemeFairSpec adds that  *)
(* the image load and the timers it waits for do settle.  EmitterSpec is   *)
(* the callback registry of the player and of the switcher: on, off and    *)
(* triggerCallbacks.                                                       *)
(*                                                                         *)
(* Representation.  A JavaScript string is a sequence of one-character     *)
(* strings.  A lyric time is kept in centiseconds: the source computes     *)
(* min*60 + sec + cs/100 as a double, which is strictly increasing in      *)
(* 6000*min + 100*sec + cs, and the source only ever compares times.       *)
(* Playback times are centiseconds as well.  Indices are 0-based as in the *)
(* source; lyrics[i] of the source is lyrics[i+1] here.                    *)
(***************************************************************************)
EXTENDS Integers, Sequences, FiniteSets, TLC

VARIABLES
  lyrics,        \* LyricsParser.lyrics: sequence of [time, text]
  metadata,      \* LyricsParser.metadata: function key -> value
  currentIndex,  \* LyricsParser.currentIndex
  isPlaying,     \* AudioPlayer.isPlaying
  currentTrack,  \* AudioPlayer.currentTrack ("none" for null)
  display,       \* elements.currentLyric.textContent
  currentTime,   \* audio.currentTime
  paused,        \* audio.paused
  media,         \* the audio element's source: "empty", "loading", "ready" or "error"
  fetching,      \* changeTrack calls awaiting their lyric fetch, oldest first
  preloading,    \* changeTrack calls awaiting preloadTrack, oldest first
  fired,         \* the callbacks triggerCallbacks ran in the last step, in order
  op,            \* name of the last operation performed
  input,         \* the text last handed to parseLRC (<<>> otherwise)
  queryTime,     \* currentTime of the last getCurrentLyric call (0 otherwise)
  ret,           \* what the last getCurrentLyric call returned
  prevIndex,     \* currentIndex before the last operation
  sinceClear,    \* clear() was called and no parse has loaded a line since
  ascending,     \* the getCurrentLyric calls since the last parseLRC or clear()
                 \* came with non-decreasing times
  failedFetch,   \* a lyric fetch has failed and changeTrack was not called since
  repeatedTick,  \* the last two operations were clock ticks that resolved to
                 \* the same line index
  currentThemeIndex, \* ThemeSwitcher.currentThemeIndex
  isTransitioning,   \* ThemeSwitcher.isTransitioning
  saved,         \* localStorage's item 'birthday-theme' (Null when absent)
  switching,     \* switchTheme calls waiting at an await, oldest first
  requested,     \* the theme whose music updateThemeContent last handed to
                 \* audioPlayer.changeTrack
  triggered,     \* the events the switcher triggered in the last step, in order
  trail,         \* the events the switcher triggered since, and including,
                 \* its last onTransitionStart
  themeOp,       \* name of the last operation on the switcher
  themeArg,      \* the index the last switchTheme call was given
  callbacks,     \* the callbacks object of the player and of the switcher
  invoked,       \* the callbacks the last triggerCallbacks call ran, in order
  thrown,        \* the last on, off or triggerCallbacks call threw
  lastCall       \* the last on, off or triggerCallbacks call: its name, the
                 \* object it was made on, its event name and its callback

parserVars == <<lyrics, metadata, currentIndex>>
playerVars == <<isPlaying, currentTrack, display, currentTime, paused, media,
                fetching, preloading, fired>>
obsVars == <<op, input, queryTime, ret, prevIndex, sinceClear, ascending,
             failedFetch, repeatedTick>>
themeVars == <<currentThemeIndex, isTransitioning, saved, switching,
               requested, triggered, trail, themeOp, themeArg>>
emitterVars == <<callbacks, invoked, thrown, lastCall>>
vars == <<lyrics, metadata, currentIndex, isPlaying, currentTrack, display,
          currentTime, paused, media, fetching, preloading, fired,
          op, input, queryTime, ret, prevIndex, sinceClear, ascending,
          failedFetch, repeatedTick, currentThemeIndex, isTransitioning,
          saved, switching, requested, triggered, trail, themeOp, themeArg,
          callbacks, invoked, thrown, lastCall>>

----------------------------------------------------------------------------
(* Characters and strings *)

Digits == {"0", "1", "2", "3", "4", "5", "6", "7", "8", "9"}
Letters == {"a", "b", "c", "d", "o", "p", "r", "t", "x", "y", "z"}
\* \w of a JavaScript regular expression without the u flag
WordChars == Digits \cup Letters \cup {"_"}
\* what String.prototype.trim removes (the part of it the inputs use)
Whitespace == {" ", "\t", "\r"}
NL == "\n"

Max(S) == CHOOSE x \in S : \A y \in S : x >= y

DigitValue(c) ==
  CASE c = "0" -> 0 [] c = "1" -> 1 [] c = "2" -> 2 [] c = "3" -> 3
    [] c = "4" -> 4 [] c = "5" -> 5 [] c = "6" -> 6 [] c = "7" -> 7
    [] c = "8" -> 8 [] c = "9" -> 9

\* parseInt(s, 10) on a string of decimal digits
RECURSIVE parseInt(_)
parseInt(s) ==
  IF s = <<>> THEN 0
  ELSE 10 * parseInt(SubSeq(s, 1, Len(s) - 1)) + DigitValue(s[Len(s)])

RECURSIVE TrimLeft(_)
TrimLeft(s) ==
  IF s # <<>> /\ Head(s) \in Whitespace THEN TrimLeft(Tail(s)) ELSE s

RECURSIVE TrimRight(_)
TrimRight(s) ==
  IF s # <<>> /\ s[Len(s)] \in Whitespace
  THEN TrimRight(SubSeq(s, 1, Len(s) - 1)) ELSE s

\* String.prototype.trim
trim(s) == TrimRight(TrimLeft(s))

\* position of the first c in s at or after position i, 0 when there is none
RECURSIVE IndexOf(_, _, _)
IndexOf(s, c, i) ==
  IF i > Len(s) THEN 0
  ELSE IF s[i] = c THEN i
  ELSE IndexOf(s, c, i + 1)

\* lrcContent.split('\n')
RECURSIVE split(_)
split(s) ==
  LET i == IndexOf(s, NL, 1)
  IN IF i = 0 THEN <<s>>
     ELSE <<SubSeq(s, 1, i - 1)>> \o split(SubSeq(s, i + 1, Len(s)))

----------------------------------------------------------------------------
(* The two regular expressions of parseLRC *)

\* length of the run of word characters of line that starts at position i
RECURSIVE WordRun(_, _)
WordRun(line, i) ==
  IF i <= Len(line) /\ line[i] \in WordChars THEN 1 + WordRun(line, i + 1)
  ELSE 0

\* trimmedLine.match(/^\[(\w+):(.+)\]$/).  The key is the whole run of word
\* characters after "[" (a shorter run is followed by a word character, not
\* by ":"), the value everything between that ":" and the final "]".
metadataMatch(line) ==
  LET n == Len(line)
      k == WordRun(line, 2)
  IN IF /\ n >= 5
        /\ line[1] = "["
        /\ line[n] = "]"
        /\ k >= 1
        /\ 3 + k <= n - 1
        /\ line[2 + k] = ":"
     THEN [ok |-> TRUE, key |-> SubSeq(line, 2, 1 + k),
           value |-> SubSeq(line, 3 + k, n - 1)]
     ELSE [ok |-> FALSE]

\* \[(\d{2}):(\d{2})\.(\d{2})\] matches at position p of line
TagAt(line, p) ==
  /\ p + 9 <= Len(line)
  /\ line[p] = "["
  /\ line[p + 1] \in Digits /\ line[p + 2] \in Digits
  /\ line[p + 3] = ":"
  /\ line[p + 4] \in Digits /\ line[p + 5] \in Digits
  /\ line[p + 6] = "."
  /\ line[p + 7] \in Digits /\ line[p + 8] \in Digits
  /\ line[p + 9] = "]"

\* leftmost position at or after p where the tag matches, 0 when nowhere
RECURSIVE FirstTag(_, _)
FirstTag(line, p) ==
  IF p + 9 > Len(line) THEN 0
  ELSE IF TagAt(line, p) THEN p
  ELSE FirstTag(line, p + 1)

\* trimmedLine.match(/\[(\d{2}):(\d{2})\.(\d{2})\](.*)$/): not anchored at
\* the start, so the leftmost tag of the line matches and the text is the
\* rest of the line after it.
timeMatches(line) ==
  LET p == FirstTag(line, 1)
  IN IF p = 0 THEN [ok |-> FALSE]
     ELSE [ok |-> TRUE,
           minutes |-> SubSeq(line, p + 1, p + 2),
           seconds |-> SubSeq(line, p + 4, p + 5),
           centiseconds |-> SubSeq(line, p + 7, p + 8),
           text |-> SubSeq(line, p + 10, Len(line))]

\* parseTimeToSeconds with the centiseconds added as whole seconds
parseTimeWithoutDivision(minutes, seconds, centiseconds) ==
  (parseInt(minutes) * 60 + parseInt(seconds) + parseInt(centiseconds)) * 100

\* parseTimeToSeconds, in centiseconds
parseTimeToSeconds(minutes, seconds, centiseconds) ==
  LET min == parseInt(minutes)
      sec == parseInt(seconds)
      cs == parseInt(centiseconds)
  IN (min * 60 + sec) * 100 + cs

----------------------------------------------------------------------------
(* LyricsParser *)

\* {} as the value of this.metadata
EmptyMetadata == [k \in {} |-> <<>>]

\* the property name whose assignment on an object literal goes to the
\* accessor of Object.prototype
ProtoKey == <<"_", "_", "p", "r", "o", "t", "o", "_", "_">>

\* this.metadata[key] = value, with value a string.  The metadata object is
\* an object literal ({}): assigning its __proto__ calls the inherited
\* setter, which ignores a value that is neither an object nor null, so no
\* property is created.
SetMetadata(m, key, value) ==
  IF key = ProtoKey THEN m
  ELSE [k \in (DOMAIN m) \cup {key} |-> IF k = key THEN value ELSE m[k]]

\* the state a constructor leaves: lines 7-11
NewParser == [lyrics |-> <<>>, metadata |-> EmptyMetadata, currentIndex |-> -1]

\* a non-blank line that matches neither regular expression of parseLRC
Unmatched(line) ==
  /\ trim(line) # <<>>
  /\ ~metadataMatch(trim(line)).ok
  /\ ~timeMatches(trim(line)).ok

\* the loop body that, on a line of neither shape, throws away what the lines
\* before it gave
parseLineStopsAtUnmatched(acc, line) ==
  IF Unmatched(line) THEN [lyrics |-> <<>>, metadata |-> EmptyMetadata]
  ELSE LET trimmedLine == trim(line)
           mm == metadataMatch(trimmedLine)
           tm == timeMatches(trimmedLine)
       IN IF trimmedLine = <<>> THEN acc
          ELSE IF mm.ok
          THEN [acc EXCEPT !.metadata = SetMetadata(@, mm.key, trim(mm.value))]
          ELSE [acc EXCEPT !.lyrics =
                  Append(@, [time |-> parseTimeToSeconds(tm.minutes, tm.seconds,
                                                         tm.centiseconds),
                             text |-> trim(tm.text)])]

\* one iteration of the for loop of parseLRC on acc = [lyrics, metadata]
parseLine(acc, line) ==
  LET trimmedLine == trim(line)
      mm == metadataMatch(trimmedLine)
      tm == timeMatches(trimmedLine)
  IN IF trimmedLine = <<>> THEN acc
     ELSE IF mm.ok
     THEN [acc EXCEPT !.metadata = SetMetadata(@, mm.key, trim(mm.value))]
     ELSE IF tm.ok
     THEN [acc EXCEPT !.lyrics =
             Append(@, [time |-> parseTimeToSeconds(tm.minutes, tm.seconds,
                                                    tm.centiseconds),
                        text |-> trim(tm.text)])]
     ELSE acc

RECURSIVE parseLines(_, _)
parseLines(acc, lines) ==
  IF lines = <<>> THEN acc
  ELSE parseLines(parseLine(acc, Head(lines)), Tail(lines))

\* x placed after every element of the sorted sequence s whose time is <= its own
RECURSIVE InsertByTime(_, _)
InsertByTime(s, x) ==
  IF s = <<>> THEN <<x>>
  ELSE IF s[Len(s)].time <= x.time THEN Append(s, x)
  ELSE Append(InsertByTime(SubSeq(s, 1, Len(s) - 1), x), s[Len(s)])

\* parseLRC without its sort: the lines stay in input order
sortOmitted(s) == s

\* x placed before every element of the sorted sequence s whose time is >= its own
RECURSIVE InsertBeforeTies(_, _)
InsertBeforeTies(s, x) ==
  IF s = <<>> THEN <<x>>
  ELSE IF s[Len(s)].time < x.time THEN Append(s, x)
  ELSE Append(InsertBeforeTies(SubSeq(s, 1, Len(s) - 1), x), s[Len(s)])

\* a sort by time that is not stable: lines of equal time end in reverse order
RECURSIVE sortReversingTies(_)
sortReversingTies(s) ==
  IF s = <<>> THEN <<>>
  ELSE InsertBeforeTies(sortReversingTies(SubSeq(s, 1, Len(s) - 1)), s[Len(s)])

\* this.lyrics.sort((a, b) => a.time - b.time): Array.prototype.sort is stable
RECURSIVE sortByTime(_)
sortByTime(s) ==
  IF s = <<>> THEN <<>>
  ELSE InsertByTime(sortByTime(SubSeq(s, 1, Len(s) - 1)), s[Len(s)])

\* lines 23-55 of parseLRC: what a non-empty lrcContent leaves in the parser
parseContent(lrcContent) ==
  LET acc == parseLines([lyrics |-> <<>>, metadata |-> EmptyMetadata],
                        split(lrcContent))
  IN [lyrics |-> sortByTime(acc.lyrics),
      metadata |-> acc.metadata,
      currentIndex |-> -1]

\* clear() that resets the cursor and the metadata but keeps the lines
clearKeepsLines(p) == [p EXCEPT !.metadata = EmptyMetadata, !.currentIndex = -1]

\* clear()
clear(p) == [lyrics |-> <<>>, metadata |-> EmptyMetadata, currentIndex |-> -1]

\* hasLyrics()
hasLyrics(p) == Len(p.lyrics) > 0

\* null as the return value of getCurrentLyric
Null == [kind |-> "null"]

\* the loop with < in place of <= at line 89
RECURSIVE scanStrict(_, _, _, _)
scanStrict(lines, t, i, targetIndex) ==
  IF i < Len(lines)
  THEN IF lines[i + 1].time < t
       THEN scanStrict(lines, t, i + 1, i)
       ELSE targetIndex
  ELSE targetIndex

\* the for loop of getCurrentLyric, from index i with targetIndex so far
RECURSIVE scan(_, _, _, _)
scan(lines, t, i, targetIndex) ==
  IF i < Len(lines)
  THEN IF lines[i + 1].time <= t
       THEN scan(lines, t, i + 1, i)
       ELSE targetIndex
  ELSE targetIndex

\* getCurrentLyric that sets currentIndex back to -1 when it returns null
getCurrentLyricResetsOnNull(p, t) ==
  IF Len(p.lyrics) = 0
  THEN [parser |-> [p EXCEPT !.currentIndex = -1], value |-> Null]
  ELSE LET targetIndex == scan(p.lyrics, t, 0, -1)
       IN IF targetIndex >= 0
          THEN [parser |-> [p EXCEPT !.currentIndex = targetIndex],
                value |-> [kind |-> "lyric",
                           text |-> p.lyrics[targetIndex + 1].text,
                           time |-> p.lyrics[targetIndex + 1].time,
                           index |-> targetIndex,
                           isNew |-> targetIndex # p.currentIndex]]
          ELSE [parser |-> [p EXCEPT !.currentIndex = -1], value |-> Null]

\* getCurrentLyric(t) on parser state p: the state it leaves and
\* the value it returns
getCurrentLyric(p, t) ==
  IF Len(p.lyrics) = 0 THEN [parser |-> p, value |-> Null]
  ELSE LET targetIndex == scan(p.lyrics, t, 0, -1)
       IN IF targetIndex >= 0
          THEN [parser |-> [p EXCEPT !.currentIndex = targetIndex],
                value |-> [kind |-> "lyric",
                           text |-> p.lyrics[targetIndex + 1].text,
                           time |-> p.lyrics[targetIndex + 1].time,
                           index |-> targetIndex,
                           isNew |-> targetIndex # p.currentIndex]]
          ELSE [parser |-> p, value |-> Null]

----------------------------------------------------------------------------
(* Inputs *)

\* most lines of one parsed input
MaxLines == 2

Tag(mm, ss, cc) == <<"[">> \o mm \o <<":">> \o ss \o <<".">> \o cc \o <<"]">>
Tag1 == Tag(<<"0", "0">>, <<"0", "0">>, <<"0", "1">>)
Tag2 == Tag(<<"0", "1">>, <<"0", "2">>, <<"0", "3">>)
Tag3 == Tag(<<"0", "0">>, <<"0", "2">>, <<"0", "0">>)

\* the lines inputs are made of: timed lines (out of order, with equal times,
\* with text to trim), a bare tag, a tag after other characters, a timed line
\* whose text ends in "]", metadata tags (one key twice), a line of neither
\* shape
SampleLines ==
  { Tag2 \o <<"b">>,
    Tag1 \o <<" ", "a">>,
    Tag3 \o <<"d">>,
    Tag2,
    <<"x">> \o Tag1,
    Tag1 \o <<"c", "]">>,
    <<"[", "a", "r", ":", "x", "]">>,
    <<"[", "a", "r", ":", " ", "y", "]">>,
    <<" ", "z", "z">> }

\* lines.join('\n')
RECURSIVE Join(_)
Join(lines) ==
  IF lines = <<>> THEN <<>>
  ELSE IF Len(lines) = 1 THEN lines[1]
  ELSE lines[1] \o <<NL>> \o Join(Tail(lines))

\* a text with a blank line between two timed lines and a newline at its end
WithBlankLines ==
  Join(<<Tag3 \o <<"d">>, <<" ">>, Tag1 \o <<" ", "a">>, <<>>>>)

\* a text with two metadata tags, the first with the key __proto__
WithProtoKey ==
  Join(<<<<"[">> \o ProtoKey \o <<":", "x", "]">>,
         <<"[", "a", "r", ":", "x", "]">>>>)

\* the inputs: the empty string, every text of 1..MaxLines sample lines, the
\* text with blank lines and the text with the key __proto__
Contents ==
  {<<>>, WithBlankLines, WithProtoKey} \cup
  UNION {{Join(ls) : ls \in [1..n -> SampleLines]} : n \in 1..MaxLines}

\* the times tags of the sample lines stand for, and the playback times
\* queried: before the first, each of them, and just after each
SampleTimes == {1, 200, 6203}
QueryTimes == {0} \cup UNION {{x, x + 1} : x \in SampleTimes}

\* parseContent of every input, computed once
Parsed == [c \in Contents |-> parseContent(c)]

\* parseLRC on parser state p: the state it leaves.  An empty lrcContent is
\* falsy: lines 18-21 return before anything is reset.
parseLRC(p, lrcContent) ==
  IF lrcContent = <<>> THEN p ELSE Parsed[lrcContent]

----------------------------------------------------------------------------
(* ThemeSwitcher and the callback registries: values and pure functions *)

\* the indices of THEMES, an array of three themes, each with a background
\* image and a music track
THEMES == 0..2

\* an item of localStorage holding the string s
Item(s) == [kind |-> "item", value |-> s]

\* the longest prefix of s made of characters of set
RECURSIVE LeadingRun(_, _)
LeadingRun(s, set) ==
  IF s = <<>> \/ s[1] \notin set THEN <<>>
  ELSE <<s[1]>> \o LeadingRun(Tail(s), set)

HexDigits == Digits \cup {"a", "b", "c", "d", "e", "f", "A", "B", "C", "D", "E", "F"}

HexValue(c) ==
  CASE c \in Digits -> DigitValue(c)
    [] c \in {"a", "A"} -> 10 [] c \in {"b", "B"} -> 11
    [] c \in {"c", "C"} -> 12 [] c \in {"d", "D"} -> 13
    [] c \in {"e", "E"} -> 14 [] c \in {"f", "F"} -> 15

RECURSIVE parseHex(_)
parseHex(s) ==
  IF s = <<>> THEN 0
  ELSE 16 * parseHex(SubSeq(s, 1, Len(s) - 1)) + HexValue(s[Len(s)])

NaN == [nan |-> TRUE, value |-> 0]

\* parseInt(string) without a radix: leading white space is skipped, a sign
\* is taken, '0x' or '0X' selects radix 16, and the digits up to the first
\* character that is not one are the number; NaN when there are none
parseIntOfString(string) ==
  LET stripped == SubSeq(string,
                         Len(LeadingRun(string, Whitespace \cup {NL})) + 1,
                         Len(string))
      signed == stripped # <<>> /\ stripped[1] \in {"+", "-"}
      sign == IF signed /\ stripped[1] = "-" THEN -1 ELSE 1
      body == IF signed THEN Tail(stripped) ELSE stripped
      hex == Len(body) >= 2 /\ body[1] = "0" /\ body[2] \in {"x", "X"}
      digits == IF hex THEN LeadingRun(SubSeq(body, 3, Len(body)), HexDigits)
                ELSE LeadingRun(body, Digits)
  IN IF digits = <<>> THEN NaN
     ELSE [nan |-> FALSE,
           value |-> sign * (IF hex THEN parseHex(digits) ELSE parseInt(digits))]

DigitChar(d) == CHOOSE c \in Digits : DigitValue(c) = d

\* Number.prototype.toString of an integer
RECURSIVE toString(_)
toString(n) ==
  IF n < 0 THEN <<"-">> \o toString(-n)
  ELSE IF n < 10 THEN <<DigitChar(n)>>
  ELSE toString(n \div 10) \o <<DigitChar(n % 10)>>

\* loadSavedTheme: the index the switcher starts with, given the one the
\* constructor set and the saved item
loadSavedTheme(index, savedTheme) ==
  IF savedTheme # Null
  THEN LET themeIndex == parseIntOfString(savedTheme.value)
       IN IF ~themeIndex.nan /\ themeIndex.value >= 0
             /\ themeIndex.value < Cardinality(THEMES)
          THEN themeIndex.value
          ELSE index
  ELSE index

\* an event with the data triggerCallbacks is given for it
Event(name, data) == [event |-> name, data |-> data]

\* the test that makes switchTheme return at once
returnsOnlyForCurrentTheme(themeIndex, current, transitioning) ==
  themeIndex = current

returnsAtOnce(themeIndex, current, transitioning) ==
  themeIndex = current \/ transitioning

\* how the part of switchTheme after its awaits can end: the preload or the
\* transition was rejected; it ran to the end; localStorage.setItem threw
SwitchOutcomes == {"rejected", "ok", "quota"}

\* switchTheme whose failure skips the finally block
completeWithoutFinally(current, savedTheme, transitioning, themeIndex, outcome) ==
  LET index == IF outcome = "rejected" THEN current ELSE themeIndex
  IN [currentThemeIndex |-> index,
      saved |-> IF outcome = "ok" THEN Item(toString(index)) ELSE savedTheme,
      isTransitioning |-> IF outcome = "ok" THEN FALSE ELSE transitioning,
      events |-> IF outcome = "ok"
                 THEN <<Event("onThemeChange", [index |-> themeIndex]),
                        Event("onTransitionEnd", [index |-> index])>>
                 ELSE <<>>]

\* switchTheme from the point where its awaits have settled: the rest of the
\* try block, the catch and the finally block
complete(current, savedTheme, transitioning, themeIndex, outcome) ==
  LET index == IF outcome = "rejected" THEN current ELSE themeIndex
  IN [currentThemeIndex |-> index,
      saved |-> IF outcome = "ok" THEN Item(toString(index)) ELSE savedTheme,
      isTransitioning |-> FALSE,
      events |-> (IF outcome = "ok"
                  THEN <<Event("onThemeChange", [index |-> themeIndex])>>
                  ELSE <<>>)
                 \o <<Event("onTransitionEnd", [index |-> index])>>]

\* the callback functions handed to on and off: "g" throws when called
CallbackIds == {"f", "g"}
Throwing == {"g"}

\* the callbacks object each constructor builds
NewCallbacks ==
  [audioPlayer |->
     [e \in {"onPlay", "onPause", "onTrackChange", "onError"} |-> <<>>],
   themeSwitcher |->
     [e \in {"onThemeChange", "onTransitionStart", "onTransitionEnd"} |-> <<>>]]

\* names that are no key of a callbacks object; callbacks['toString'] is the
\* function inherited from Object.prototype, which has no push, indexOf or
\* forEach, so that on, off and triggerCallbacks throw a TypeError for it
UnknownEvents == {"onOther", "toString"}
Inherited == {"toString"}

Returned(registry) == [callbacks |-> registry, thrown |-> FALSE]
Threw(registry) == [callbacks |-> registry, thrown |-> TRUE]

on(registry, name, callback) ==
  IF name \in DOMAIN registry
  THEN Returned([registry EXCEPT ![name] = Append(@, callback)])
  ELSE IF name \in Inherited THEN Threw(registry) ELSE Returned(registry)

\* indexOf: the 1-based position of the first callback in list at or after
\* i, 0 when there is none
RECURSIVE indexOf(_, _, _)
indexOf(list, callback, i) ==
  IF i > Len(list) THEN 0
  ELSE IF list[i] = callback THEN i
  ELSE indexOf(list, callback, i + 1)

off(registry, name, callback) ==
  IF name \in DOMAIN registry
  THEN LET index == indexOf(registry[name], callback, 1)
       IN IF index > 0
          THEN Returned([registry EXCEPT ![name] =
                           SubSeq(@, 1, index - 1) \o SubSeq(@, index + 1, Len(@))])
          ELSE Returned(registry)
  ELSE IF name \in Inherited THEN Threw(registry) ELSE Returned(registry)

\* forEach over the list of an event whose callback runs outside any try
\* block: the first exception ends the loop and leaves triggerCallbacks
RECURSIVE forEachUncaught(_, _)
forEachUncaught(list, name) ==
  IF list = <<>> THEN [invoked |-> <<>>, thrown |-> FALSE]
  ELSE IF list[1] \in Throwing
       THEN [invoked |-> <<[callback |-> list[1], event |-> name]>>,
             thrown |-> TRUE]
       ELSE LET rest == forEachUncaught(Tail(list), name)
            IN [invoked |-> <<[callback |-> list[1], event |-> name]>> \o rest.invoked,
                thrown |-> rest.thrown]

\* forEach over the list of an event: each callback is called inside its own
\* try block, whose catch logs the exception of a throwing one
RECURSIVE forEach(_, _)
forEach(list, name) ==
  IF list = <<>> THEN [invoked |-> <<>>, thrown |-> FALSE]
  ELSE LET rest == forEach(Tail(list), name)
       IN [invoked |-> <<[callback |-> list[1], event |-> name]>> \o rest.invoked,
           thrown |-> rest.thrown]

triggerCallbacks(registry, name) ==
  IF name \in DOMAIN registry THEN forEach(registry[name], name)
  ELSE [invoked |-> <<>>, thrown |-> name \in Inherited]

----------------------------------------------------------------------------
(* The parser used on its own: ParserSpec *)

\* '♪ 音乐播放中...', the text shown when no lyric line is
Filler == <<"#">>

\* the text of the element before the player first writes it
InitialText == <<>>

\* the parser and the player after construction
NewPlayer ==
  /\ lyrics = NewParser.lyrics
  /\ metadata = NewParser.metadata
  /\ currentIndex = NewParser.currentIndex
  /\ isPlaying = FALSE
  /\ currentTrack = "none"
  /\ display = InitialText
  /\ currentTime = 0
  /\ paused = TRUE
  /\ media = "empty"
  /\ fetching = <<>>
  /\ preloading = <<>>
  /\ fired = <<>>
  /\ op = "new"
  /\ input = <<>>
  /\ queryTime = 0
  /\ ret = Null
  /\ prevIndex = -1
  /\ sinceClear = FALSE
  /\ ascending = TRUE
  /\ failedFetch = FALSE
  /\ repeatedTick = FALSE

\* the switcher after construction with savedTheme in localStorage: init()
\* runs loadSavedTheme and applyTheme, which hands the theme's music to
\* audioPlayer.changeTrack
NewSwitcher(savedTheme) ==
  /\ saved = savedTheme
  /\ currentThemeIndex = loadSavedTheme(0, savedTheme)
  /\ isTransitioning = FALSE
  /\ switching = <<>>
  /\ requested = currentThemeIndex
  /\ triggered = <<>>
  /\ trail = <<>>
  /\ themeOp = "new"
  /\ themeArg = 0

\* the callbacks objects after construction
NewEmitters ==
  /\ callbacks = NewCallbacks
  /\ invoked = <<>>
  /\ thrown = FALSE
  /\ lastCall = [op |-> "none", object |-> "none", event |-> "none",
                 callback |-> "none"]

Init == NewPlayer /\ NewSwitcher(Null) /\ NewEmitters

Parser == [lyrics |-> lyrics, metadata |-> metadata, currentIndex |-> currentIndex]

SetParser(p) ==
  /\ lyrics' = p.lyrics
  /\ metadata' = p.metadata
  /\ currentIndex' = p.currentIndex
  /\ prevIndex' = currentIndex

\* the last operation: its name, the text it parsed, the time it queried and
\* what the query returned; and whether the direct getCurrentLyric calls made
\* since the last other operation came in non-decreasing order of time; and
\* whether a lyric fetch has failed since the last changeTrack call; and
\* whether this operation and the one before it are clock ticks that resolved
\* to the same line index
Observe(name, lrcContent, t, value) ==
  /\ op' = name
  /\ input' = lrcContent
  /\ queryTime' = t
  /\ ret' = value
  /\ ascending' = IF name = "getCurrentLyric"
                  THEN ascending /\ (op = "getCurrentLyric" => t >= queryTime)
                  ELSE TRUE
  /\ failedFetch' = IF name = "fetchFail" THEN TRUE
                    ELSE IF name = "changeTrack" THEN FALSE
                    ELSE failedFetch
  /\ repeatedTick' = /\ name = "timeupdate" /\ op = "timeupdate"
                     /\ value.kind = "lyric" /\ ret.kind = "lyric"
                     /\ value.index = ret.index
  /\ UNCHANGED <<themeVars, emitterVars>>

ParseLRC(lrcContent) ==
  /\ SetParser(parseLRC(Parser, lrcContent))
  /\ Observe("parseLRC", lrcContent, 0, Null)
  /\ sinceClear' = (sinceClear /\ ~hasLyrics(parseLRC(Parser, lrcContent)))
  /\ UNCHANGED playerVars

GetCurrentLyric(t) ==
  LET r == getCurrentLyric(Parser, t)
  IN /\ SetParser(r.parser)
     /\ Observe("getCurrentLyric", <<>>, t, r.value)
     /\ UNCHANGED <<playerVars, sinceClear>>

Clear ==
  /\ SetParser(clear(Parser))
  /\ Observe("clear", <<>>, 0, Null)
  /\ sinceClear' = TRUE
  /\ UNCHANGED playerVars

ParserNext ==
  \/ \E lrcContent \in Contents : ParseLRC(lrcContent)
  \/ \E t \in QueryTimes : GetCurrentLyric(t)
  \/ Clear

ParserSpec == Init /\ [][ParserNext]_vars

----------------------------------------------------------------------------
(* A new parser given one timed line, for every timestamp: TimeSpec *)

\* the digits the timestamps are written with, and the two-digit fields
TimeDigits == {"0", "5", "8", "9"}
TwoDigits == {<<a, b>> : a \in TimeDigits, b \in TimeDigits}

\* new LyricsParser().parseLRC('[minutes:seconds.centiseconds]a')
ParseTimedLine(minutes, seconds, centiseconds) ==
  LET lrcContent == Tag(minutes, seconds, centiseconds) \o <<"a">>
  IN /\ op = "new"
     /\ SetParser(parseContent(lrcContent))
     /\ Observe("parseLRC", lrcContent, 0, Null)
     /\ sinceClear' = FALSE
     /\ UNCHANGED playerVars

TimeNext ==
  \E minutes \in TwoDigits, seconds \in TwoDigits, centiseconds \in TwoDigits :
    ParseTimedLine(minutes, seconds, centiseconds)

TimeSpec == Init /\ [][TimeNext]_vars

----------------------------------------------------------------------------
(* The audio player: Spec *)

\* most changeTrack calls in progress at once
MaxInFlight == 2

\* the tracks changeTrack is called with and the lyricsUrl passed with each
\* ("none" for a call that passes no lyricsUrl)
Tracks == {"t0", "t1", "t2"}
LyricsOf(track) ==
  CASE track = "t0" -> "none" [] track = "t1" -> "l1" [] track = "t2" -> "l2"

BodyA == Join(<<Tag1 \o <<" ", "a">>, Tag3 \o <<"d">>>>)
BodyB == Join(<<<<"x">> \o Tag1, Tag2 \o <<"b">>>>)
BodyNoLines == <<"[", "a", "r", ":", "x", "]">>

\* the response bodies a lyrics URL may be answered with: its lyrics, or a
\* text without lyric lines (the empty text for l1)
Served(url) ==
  CASE url = "l1" -> {BodyA, <<>>} [] url = "l2" -> {BodyB, BodyNoLines}

\* what fetch(url) followed by response.text() can end in: a network error
\* or a non-OK status, or a body
Responses(url) ==
  {[ok |-> FALSE]} \cup {[ok |-> TRUE, body |-> b] : b \in Served(url)}

\* the playback positions the clock and seeks take
PlayTimes == {0} \cup SampleTimes

\* updateLyrics whose else branch does not test that the query returned
\* null: the filler is written whenever the line is not new
updateLyricsFillerUnlessNew(p, shown, t) ==
  LET r == getCurrentLyric(p, t)
      lyricData == r.value
  IN [parser |-> r.parser,
      value |-> lyricData,
      display |->
        IF lyricData.kind = "lyric" /\ lyricData.isNew
        THEN IF lyricData.text = <<>> THEN Filler ELSE lyricData.text
        ELSE IF hasLyrics(r.parser)
        THEN Filler
        ELSE shown]

\* updateLyrics() at playback position t with text shown before: the parser
\* state and display it leaves, and what getCurrentLyric returned
updateLyrics(p, shown, t) ==
  LET r == getCurrentLyric(p, t)
      lyricData == r.value
  IN [parser |-> r.parser,
      value |-> lyricData,
      display |->
        IF lyricData.kind = "lyric" /\ lyricData.isNew
        THEN IF lyricData.text = <<>> THEN Filler ELSE lyricData.text
        ELSE IF lyricData.kind = "null" /\ hasLyrics(r.parser)
        THEN Filler
        ELSE shown]

\* loadFromURL whose catch block does not call clear()
loadFromURLKeepsState(p, response) ==
  IF response.ok
  THEN [parser |-> parseLRC(p, response.body),
        success |-> hasLyrics(parseLRC(p, response.body))]
  ELSE [parser |-> p, success |-> FALSE]

\* loadFromURL on parser state p when the request ends in response: the
\* parser state it leaves and the boolean it resolves to
loadFromURL(p, response) ==
  IF response.ok
  THEN LET q == parseLRC(p, response.body)
       IN [parser |-> q, success |-> hasLyrics(q)]
  ELSE [parser |-> clear(p), success |-> FALSE]

\* loadLyrics whose try block has no catch: a failed load is thrown on to
\* changeTrack
loadLyricsRethrows(p, shown, playing, t, response) ==
  LET loaded == loadFromURL(p, response)
      upd == updateLyrics(loaded.parser, shown, t)
  IN IF loaded.success /\ playing
     THEN [parser |-> upd.parser, display |-> upd.display, value |-> upd.value,
           time |-> t, returned |-> TRUE]
     ELSE [parser |-> loaded.parser,
           display |-> IF loaded.success THEN shown ELSE Filler,
           value |-> Null, time |-> 0, returned |-> response.ok]

\* loadLyrics(lyricsUrl) from the moment its fetch ends in response, with
\* text shown on the display, isPlaying = playing and playback position t:
\* the parser state and display it leaves, the value and time of the
\* getCurrentLyric call it made (null and 0 when it made none), and whether
\* it returned to changeTrack (the catch block lets no error through)
loadLyrics(p, shown, playing, t, response) ==
  LET loaded == loadFromURL(p, response)
      upd == updateLyrics(loaded.parser, shown, t)
  IN IF loaded.success /\ playing
     THEN [parser |-> upd.parser, display |-> upd.display, value |-> upd.value,
           time |-> t, returned |-> TRUE]
     ELSE [parser |-> loaded.parser,
           display |-> IF loaded.success THEN shown ELSE Filler,
           value |-> Null, time |-> 0, returned |-> TRUE]

\* the onTrackChange callbacks fired by the i-th waiting changeTrack call:
\* the data passed to them, how the lyric fetch of the call ended ("none"
\* for a call without one), and the call they come from
TrackChanged(call, i) ==
  [event |-> "onTrackChange", track |-> currentTrack, lyrics |-> call.lyricsUrl,
   wasPlaying |-> call.wasPlaying, fetch |-> call.fetch, by |-> i]

\* the onError, onPlay or onPause callbacks, fired with the current track by
\* the i-th waiting changeTrack call (0: by a listener of the audio element
\* or a play() call from outside changeTrack)
Callback(name, i) ==
  [event |-> name, track |-> currentTrack, lyrics |-> "none",
   wasPlaying |-> FALSE, fetch |-> "none", by |-> i]

\* what audio.play() can end in: it resolves, it is rejected with
\* NotAllowedError, or it is rejected with another error
PlayOutcomes == {"ok", "notAllowed", "failed"}

\* play() whose catch block fires onError for every rejection
playReportsEveryRejection(outcome, i) ==
  IF currentTrack = "none" THEN [started |-> FALSE, fired |-> <<>>]
  ELSE IF outcome = "ok" THEN [started |-> TRUE, fired |-> <<>>]
  ELSE [started |-> FALSE, fired |-> <<Callback("onError", i)>>]

\* play() when audio.play() ends in outcome, called by the i-th waiting
\* changeTrack call (0: from outside changeTrack): whether playback was
\* started, and the callbacks fired
play(outcome, i) ==
  IF currentTrack = "none" THEN [started |-> FALSE, fired |-> <<>>]
  ELSE IF outcome = "ok" THEN [started |-> TRUE, fired |-> <<>>]
  ELSE IF outcome = "notAllowed" THEN [started |-> FALSE, fired |-> <<>>]
  ELSE [started |-> FALSE, fired |-> <<Callback("onError", i)>>]

\* lines 271-281 of changeTrack for the waiting calls from the i-th on, once
\* preloadTrack has resolved: play() for a call that was playing, then
\* onTrackChange
RECURSIVE afterPreload(_, _, _)
afterPreload(calls, i, outcome) ==
  IF i > Len(calls) THEN <<>>
  ELSE (IF calls[i].wasPlaying THEN play(outcome, i).fired ELSE <<>>)
       \o <<TrackChanged(calls[i], i)>>
       \o afterPreload(calls, i + 1, outcome)

\* s without its i-th element
Remove(s, i) == SubSeq(s, 1, i - 1) \o SubSeq(s, i + 1, Len(s))

\* changeTrack(track, album, LyricsOf(track)) up to its first await: stop(),
\* the new source, and loadLyrics up to the fetch (or all of it, and
\* preloadTrack, when there is no lyricsUrl)
ChangeTrack(track) ==
  LET call == [lyricsUrl |-> LyricsOf(track), wasPlaying |-> isPlaying,
               fetch |-> IF LyricsOf(track) = "none" THEN "none" ELSE "pending"]
  IN /\ Len(fetching) + Len(preloading) < MaxInFlight
     /\ paused' = TRUE
     /\ currentTime' = 0
     /\ currentTrack' = track
     /\ media' = "loading"
     /\ IF call.lyricsUrl = "none"
        THEN /\ SetParser(clear(Parser))
             /\ display' = Filler
             /\ sinceClear' = TRUE
             /\ preloading' = Append(preloading, call)
             /\ UNCHANGED fetching
        ELSE /\ SetParser(Parser)
             /\ fetching' = Append(fetching, call)
             /\ UNCHANGED <<display, sinceClear, preloading>>
     /\ fired' = <<>>
     /\ Observe("changeTrack", <<>>, 0, Null)
     /\ UNCHANGED isPlaying

\* changeTrack('', ...): lines 244-247 return before anything is done
ChangeTrackWithoutUrl ==
  /\ SetParser(Parser)
  /\ fired' = <<>>
  /\ Observe("changeTrackIgnored", <<>>, 0, Null)
  /\ UNCHANGED <<isPlaying, currentTrack, display, currentTime, paused, media,
                 fetching, preloading, sinceClear>>

\* the fetch of the i-th waiting call ends in response: the rest of
\* loadFromURL and of loadLyrics, then preloadTrack's audio.load()
FetchDone(i, response) ==
  LET done == loadLyrics(Parser, display, isPlaying, currentTime, response)
      call == [fetching[i] EXCEPT
                 !.fetch = IF response.ok THEN "ok" ELSE "failed"]
  IN /\ SetParser(done.parser)
     /\ display' = done.display
     /\ Observe(IF response.ok THEN "fetchOk" ELSE "fetchFail",
                IF response.ok THEN response.body ELSE <<>>,
                done.time, done.value)
     /\ sinceClear' = IF response.ok
                      THEN sinceClear /\ ~hasLyrics(done.parser)
                      ELSE TRUE
     /\ fetching' = Remove(fetching, i)
     /\ fired' = <<>>
     /\ IF done.returned
        THEN /\ preloading' = Append(preloading, call)
             /\ media' = "loading"
             /\ paused' = TRUE
             /\ currentTime' = 0
        ELSE UNCHANGED <<preloading, media, paused, currentTime>>
     /\ UNCHANGED <<isPlaying, currentTrack>>

\* canplaythrough: every waiting preloadTrack resolves; a call that was
\* playing calls play(), whose audio.play() ends in outcome; onTrackChange
\* fires
CanPlayThrough(outcome) ==
  /\ media = "loading"
  /\ media' = "ready"
  /\ paused' = IF \E i \in 1..Len(preloading) :
                    preloading[i].wasPlaying /\ play(outcome, i).started
               THEN FALSE ELSE paused
  /\ preloading' = <<>>
  /\ fired' = afterPreload(preloading, 1, outcome)
  /\ SetParser(Parser)
  /\ Observe("canplaythrough", <<>>, 0, Null)
  /\ UNCHANGED <<isPlaying, currentTrack, display, currentTime, fetching,
                 sinceClear>>

\* the audio element's error event: the listener of setupAudioEvents fires
\* onError, every waiting preloadTrack rejects and the catch block of its
\* changeTrack call fires onError
AudioError ==
  /\ media = "loading"
  /\ media' = "error"
  /\ preloading' = <<>>
  /\ fired' = [i \in 1..(1 + Len(preloading)) |-> Callback("onError", i - 1)]
  /\ SetParser(Parser)
  /\ Observe("error", <<>>, 0, Null)
  /\ UNCHANGED <<isPlaying, currentTrack, display, currentTime, paused,
                 fetching, sinceClear>>

\* play() from the button, the record or the space key, on a paused
\* element, with audio.play() ending in outcome (it does not resolve on a
\* source that failed to load)
Play(outcome) ==
  /\ paused
  /\ outcome = "ok" => media # "error"
  /\ paused' = IF play(outcome, 0).started THEN FALSE ELSE paused
  /\ fired' = play(outcome, 0).fired
  /\ SetParser(Parser)
  /\ Observe(IF currentTrack = "none" THEN "playNoTrack"
             ELSE IF outcome = "ok" THEN "play"
             ELSE IF outcome = "notAllowed" THEN "playNotAllowed"
             ELSE "playFailed", <<>>, 0, Null)
  /\ UNCHANGED <<isPlaying, currentTrack, display, currentTime, media,
                 fetching, preloading, sinceClear>>

\* pause()
Pause ==
  /\ ~paused
  /\ paused' = TRUE
  /\ fired' = <<>>
  /\ SetParser(Parser)
  /\ Observe("pause", <<>>, 0, Null)
  /\ UNCHANGED <<isPlaying, currentTrack, display, currentTime, media,
                 fetching, preloading, sinceClear>>

\* the audio element's play or pause event reaches its listener
PlayPauseEvent ==
  /\ isPlaying = paused
  /\ isPlaying' = ~paused
  /\ fired' = <<Callback(IF paused THEN "onPause" ELSE "onPlay", 0)>>
  /\ SetParser(Parser)
  /\ Observe("playPauseEvent", <<>>, 0, Null)
  /\ UNCHANGED <<currentTrack, display, currentTime, paused, media,
                 fetching, preloading, sinceClear>>

\* the timeupdate listener at position t: the clock has advanced to t when
\* the source is playing, and stands still otherwise
TimeUpdate(t) ==
  LET shown == updateLyrics(Parser, display, t)
  IN /\ currentTrack # "none"
     /\ IF ~paused /\ media = "ready" THEN t >= currentTime ELSE t = currentTime
     /\ currentTime' = t
     /\ SetParser(shown.parser)
     /\ display' = shown.display
     /\ fired' = <<>>
     /\ Observe("timeupdate", <<>>, t, shown.value)
     /\ UNCHANGED <<isPlaying, currentTrack, paused, media, fetching,
                    preloading, sinceClear>>

\* seekTo(t), also from a click on the progress bar
SeekTo(t) ==
  LET shown == updateLyrics(Parser, display, t)
  IN /\ media = "ready"
     /\ currentTime' = t
     /\ SetParser(shown.parser)
     /\ display' = shown.display
     /\ fired' = <<>>
     /\ Observe("seekTo", <<>>, t, shown.value)
     /\ UNCHANGED <<isPlaying, currentTrack, paused, media, fetching,
                    preloading, sinceClear>>

Next ==
  \/ \E track \in Tracks : ChangeTrack(track)
  \/ ChangeTrackWithoutUrl
  \/ \E i \in 1..Len(fetching) :
       \E response \in Responses(fetching[i].lyricsUrl) : FetchDone(i, response)
  \/ \E outcome \in PlayOutcomes : CanPlayThrough(outcome)
  \/ AudioError
  \/ \E outcome \in PlayOutcomes : Play(outcome)
  \/ Pause
  \/ PlayPauseEvent
  \/ \E t \in PlayTimes : TimeUpdate(t)
  \/ \E t \in PlayTimes : SeekTo(t)

Spec == Init /\ [][Next]_vars

----------------------------------------------------------------------------
(* The theme switcher: ThemeSpec *)

\* the indices switchTheme is called with: the buttons and the keys 1 to 3
\* give 0..2, window.switchTheme gives whatever it is handed
ThemeIndexes == -1..3

\* the values of the 'birthday-theme' item the page is opened with
SavedValues ==
  {Null} \cup {Item(v) : v \in {<<"2">>, <<"3">>, <<"-", "1">>, <<"x">>,
                                <<"1", "x">>}}

\* what localStorage.setItem can end in: it returns, or it throws
\* QuotaExceededError
StorageOutcomes == {"ok", "quota"}

RECURSIVE Trail(_, _)
Trail(t, events) ==
  IF events = <<>> THEN t
  ELSE Trail(IF events[1].event = "onTransitionStart" THEN <<events[1]>>
             ELSE Append(t, events[1]),
             Tail(events))

\* the switcher calls triggerCallbacks for these events, in this order
Emit(events) ==
  /\ triggered' = events
  /\ trail' = Trail(trail, events)

ThemeInit == NewPlayer /\ NewEmitters /\ \E savedTheme \in SavedValues : NewSwitcher(savedTheme)

\* switchTheme(themeIndex) up to its first await.  THEMES[themeIndex] of an
\* index outside THEMES is undefined, and preloadThemeBackground throws a
\* TypeError reading its background: the catch and the finally block run
\* before the call returns.  The elements the page caches are present.
SwitchTheme(themeIndex) ==
  /\ themeOp' = "switchTheme"
  /\ themeArg' = themeIndex
  /\ IF returnsAtOnce(themeIndex, currentThemeIndex, isTransitioning)
     THEN /\ Emit(<<>>)
          /\ UNCHANGED <<currentThemeIndex, isTransitioning, saved, switching,
                         requested>>
     ELSE LET start == Event("onTransitionStart",
                             [from |-> currentThemeIndex, to |-> themeIndex])
          IN IF themeIndex \in THEMES
             THEN /\ isTransitioning' = TRUE
                  /\ switching' = Append(switching,
                                         [to |-> themeIndex, stage |-> "preload"])
                  /\ Emit(<<start>>)
                  /\ UNCHANGED <<currentThemeIndex, saved, requested>>
             ELSE LET end == complete(currentThemeIndex, saved, TRUE,
                                      themeIndex, "rejected")
                  IN /\ currentThemeIndex' = end.currentThemeIndex
                     /\ saved' = end.saved
                     /\ isTransitioning' = end.isTransitioning
                     /\ Emit(<<start>> \o end.events)
                     /\ UNCHANGED <<switching, requested>>
  /\ UNCHANGED <<parserVars, playerVars, obsVars, emitterVars>>

\* img.onload: the preload resolves and performThemeTransition starts the
\* fade-out and its timer
BackgroundLoaded(i) ==
  /\ i \in 1..Len(switching)
  /\ switching[i].stage = "preload"
  /\ switching' = [switching EXCEPT ![i].stage = "fadeOut"]
  /\ themeOp' = "backgroundLoaded"
  /\ Emit(<<>>)
  /\ UNCHANGED <<currentThemeIndex, isTransitioning, saved, requested, themeArg>>
  /\ UNCHANGED <<parserVars, playerVars, obsVars, emitterVars>>

\* img.onerror: the preload is rejected; the catch and the finally block run
BackgroundFailed(i) ==
  /\ i \in 1..Len(switching)
  /\ switching[i].stage = "preload"
  /\ LET end == complete(currentThemeIndex, saved, isTransitioning,
                         switching[i].to, "rejected")
     IN /\ currentThemeIndex' = end.currentThemeIndex
        /\ saved' = end.saved
        /\ isTransitioning' = end.isTransitioning
        /\ Emit(end.events)
  /\ switching' = Remove(switching, i)
  /\ themeOp' = "backgroundFailed"
  /\ UNCHANGED <<requested, themeArg>>
  /\ UNCHANGED <<parserVars, playerVars, obsVars, emitterVars>>

\* the timer of fadeOutCurrentContent: updateThemeContent hands the theme's
\* music to audioPlayer.changeTrack, and the fade-in and its timer start
FadedOut(i) ==
  /\ i \in 1..Len(switching)
  /\ switching[i].stage = "fadeOut"
  /\ switching' = [switching EXCEPT ![i].stage = "fadeIn"]
  /\ requested' = switching[i].to
  /\ themeOp' = "fadedOut"
  /\ Emit(<<>>)
  /\ UNCHANGED <<currentThemeIndex, isTransitioning, saved, themeArg>>
  /\ UNCHANGED <<parserVars, playerVars, obsVars, emitterVars>>

\* the timer of fadeInNewContent: performThemeTransition resolves and
\* switchTheme runs to its end
FadedIn(i, outcome) ==
  /\ i \in 1..Len(switching)
  /\ switching[i].stage = "fadeIn"
  /\ LET end == complete(currentThemeIndex, saved, isTransitioning,
                         switching[i].to, outcome)
     IN /\ currentThemeIndex' = end.currentThemeIndex
        /\ saved' = end.saved
        /\ isTransitioning' = end.isTransitioning
        /\ Emit(end.events)
  /\ switching' = Remove(switching, i)
  /\ themeOp' = IF outcome = "ok" THEN "switched" ELSE "saveFailed"
  /\ UNCHANGED <<requested, themeArg>>
  /\ UNCHANGED <<parserVars, playerVars, obsVars, emitterVars>>

BackgroundSettled == \E i \in 1..Len(switching) : BackgroundLoaded(i) \/ BackgroundFailed(i)

FadeOutElapsed == \E i \in 1..Len(switching) : FadedOut(i)

FadeInElapsed ==
  \E i \in 1..Len(switching) : \E outcome \in StorageOutcomes : FadedIn(i, outcome)

ThemeNext ==
  \/ \E themeIndex \in ThemeIndexes : SwitchTheme(themeIndex)
  \/ \E i \in 1..Len(switching) : BackgroundLoaded(i)
  \/ \E i \in 1..Len(switching) : BackgroundFailed(i)
  \/ \E i \in 1..Len(switching) : FadedOut(i)
  \/ \E i \in 1..Len(switching) : \E outcome \in StorageOutcomes :
       FadedIn(i, outcome)

ThemeSpec == ThemeInit /\ [][ThemeNext]_vars

\* the browser settles every image load, and every timer fires
ThemeFairSpec ==
  /\ ThemeSpec
  /\ WF_vars(BackgroundSettled)
  /\ WF_vars(FadeOutElapsed)
  /\ WF_vars(FadeInElapsed)

----------------------------------------------------------------------------
(* The callback registries of the player and of the switcher: EmitterSpec *)

MaxCallbacks == 2

EventNames == UNION {DOMAIN callbacks[object] : object \in DOMAIN callbacks}

RECURSIVE Registered(_, _)
Registered(registry, names) ==
  IF names = {} THEN 0
  ELSE LET name == CHOOSE n \in names : TRUE
       IN Len(registry[name]) + Registered(registry, names \ {name})

CallOf(name, object, eventName, callback) ==
  [op |-> name, object |-> object, event |-> eventName, callback |-> callback]

On(object, name, callback) ==
  /\ Registered(callbacks.audioPlayer, DOMAIN callbacks.audioPlayer)
       + Registered(callbacks.themeSwitcher, DOMAIN callbacks.themeSwitcher)
       < MaxCallbacks
  /\ LET r == on(callbacks[object], name, callback)
     IN /\ callbacks' = [callbacks EXCEPT ![object] = r.callbacks]
        /\ thrown' = r.thrown
  /\ invoked' = <<>>
  /\ lastCall' = CallOf("on", object, name, callback)
  /\ UNCHANGED <<parserVars, playerVars, obsVars, themeVars>>

Off(object, name, callback) ==
  /\ LET r == off(callbacks[object], name, callback)
     IN /\ callbacks' = [callbacks EXCEPT ![object] = r.callbacks]
        /\ thrown' = r.thrown
  /\ invoked' = <<>>
  /\ lastCall' = CallOf("off", object, name, callback)
  /\ UNCHANGED <<parserVars, playerVars, obsVars, themeVars>>

\* a triggerCallbacks call of the object, made by one of its operations with
\* one of the names its constructor put in callbacks
TriggerCallbacks(object, name) ==
  /\ name \in DOMAIN callbacks[object]
  /\ LET r == triggerCallbacks(callbacks[object], name)
     IN /\ invoked' = r.invoked
        /\ thrown' = r.thrown
  /\ lastCall' = CallOf("triggerCallbacks", object, name, "none")
  /\ UNCHANGED callbacks
  /\ UNCHANGED <<parserVars, playerVars, obsVars, themeVars>>

EmitterNext ==
  \/ \E object \in DOMAIN callbacks : \E name \in EventNames \cup UnknownEvents :
       \E callback \in CallbackIds : On(object, name, callback)
  \/ \E object \in DOMAIN callbacks : \E name \in EventNames \cup UnknownEvents :
       \E callback \in CallbackIds : Off(object, name, callback)
  \/ \E object \in DOMAIN callbacks : \E name \in EventNames :
       TriggerCallbacks(object, name)

EmitterSpec == Init /\ [][EmitterNext]_vars


----------------------------------------------------------------------------
(* Properties of the parser, checked under ParserSpec *)

\* the indices of the stored lines whose time is at or before t
Active(t) == {i \in 0..(Len(lyrics) - 1) : lyrics[i + 1].time <= t}

\* C1: getCurrentLyric(t) returns the line at the greatest index i with
\* lines[i].time <= t and null when there is no such line, whatever was
\* queried before (a backward seek included).
C1_QueryReturnsGreatestActiveLine ==
  op = "getCurrentLyric" =>
    IF Active(queryTime) = {} THEN ret = Null
    ELSE /\ ret.kind = "lyric"
         /\ ret.index = Max(Active(queryTime))
         /\ ret.text = lyrics[ret.index + 1].text
         /\ ret.time = lyrics[ret.index + 1].time

\* a query that resolved to an earlier line than the query before it
C1_BackwardSeekResolved ==
  /\ op = "getCurrentLyric"
  /\ ret.kind = "lyric"
  /\ ret.index < prevIndex
  /\ ret.index = Max(Active(queryTime))

\* C4: after every parseLRC call, the empty input included, the stored lines
\* and metadata are exactly those of that input and currentIndex is -1.
C4_ParseReplacesEverything ==
  op = "parseLRC" =>
    /\ lyrics = parseLRC(NewParser, input).lyrics
    /\ metadata = parseLRC(NewParser, input).metadata
    /\ currentIndex = -1

\* C7: a query that resolves to index i returns isNew = (i # currentIndex
\* before the query) and sets currentIndex to i; the first resolving query
\* after a parse or a clear returns isNew = TRUE.
C7_IsNewTracksIndexChange ==
  [][(op' = "getCurrentLyric" /\ ret'.kind = "lyric") =>
       /\ ret'.isNew = (ret'.index # currentIndex)
       /\ currentIndex' = ret'.index
       /\ (op \in {"parseLRC", "clear"} => ret'.isNew)]_vars

\* C8: the stored lines are in non-decreasing order of time.
C8_LinesSortedByTime ==
  \A i \in 1..(Len(lyrics) - 1) : lyrics[i].time <= lyrics[i + 1].time

\* the lines collected from the input were out of order and are stored in order
C8_UnsortedInputParsed ==
  /\ op = "parseLRC"
  /\ input # <<>>
  /\ Len(lyrics) >= 2
  /\ lyrics[1].time < lyrics[Len(lyrics)].time
  /\ parseLines([lyrics |-> <<>>, metadata |-> EmptyMetadata],
                split(input)).lyrics # lyrics

\* the lines of an input that are a timestamp tag and nothing else
BareTags(lrcContent) ==
  LET lines == split(lrcContent)
  IN {trim(lines[i]) : i \in {j \in 1..Len(lines) :
                                /\ Len(trim(lines[j])) = 10
                                /\ TagAt(trim(lines[j]), 1)}}

\* the time a timestamp tag stands for
TagTime(tag) ==
  parseTimeToSeconds(SubSeq(tag, 2, 3), SubSeq(tag, 5, 6), SubSeq(tag, 8, 9))

\* C9: a line that is a timestamp tag with no text is recorded as a lyric
\* line with that time and empty text.
C9_BareTagIsEmptyLyric ==
  op = "parseLRC" =>
    \A tag \in BareTags(input) :
      \E i \in 1..Len(lyrics) :
        lyrics[i] = [time |-> TagTime(tag), text |-> <<>>]

\* C10: after clear(), currentIndex is -1 and every getCurrentLyric call
\* returns null, for every time, until a parse loads at least one line.
C10_NothingAfterClear ==
  sinceClear =>
    /\ currentIndex = -1
    /\ op = "getCurrentLyric" => ret = Null
    /\ \A t \in QueryTimes : getCurrentLyric(Parser, t).value = Null

\* a query made after a clear that followed a resolved query
C10_QueriedAfterClear ==
  /\ sinceClear
  /\ op = "getCurrentLyric"
  /\ queryTime > 0

\* C11: between two parse or clear operations, while the queries come with
\* non-decreasing times, no query decreases currentIndex.
C11_IndexNeverDecreases ==
  [][(op' = "getCurrentLyric" /\ ascending') =>
       currentIndex' >= currentIndex]_vars

\* C13: parseLRC completes on every input; a non-blank line that matches
\* neither pattern adds nothing to the lines or the metadata, and the other
\* lines of the input are parsed as they are without it.
C13_UnmatchedLineDropped ==
  (op = "parseLRC" /\ input # <<>>) =>
    LET kept == SelectSeq(split(input), LAMBDA line : ~Unmatched(line))
        acc == parseLines([lyrics |-> <<>>, metadata |-> EmptyMetadata], kept)
    IN /\ Len(lyrics) = Len(acc.lyrics)
       /\ \A i \in 1..Len(acc.lyrics) :
            \E j \in 1..Len(lyrics) : lyrics[j] = acc.lyrics[i]
       /\ metadata = acc.metadata

\* an input that starts with a line of neither shape and goes on with a timed
\* line, which is stored
C13_UnmatchedThenTimedLine ==
  /\ op = "parseLRC"
  /\ input # <<>>
  /\ Len(split(input)) = 2
  /\ Unmatched(split(input)[1])
  /\ Len(lyrics) = 1

\* the positions of the lines of an input that are a whole-line tag
\* [key:rest], and the key and rest of the line at such a position
TagLines(lrcContent) ==
  {j \in 1..Len(split(lrcContent)) : metadataMatch(trim(split(lrcContent)[j])).ok}
KeyAt(lrcContent, j) == metadataMatch(trim(split(lrcContent)[j])).key
RestAt(lrcContent, j) == metadataMatch(trim(split(lrcContent)[j])).value

\* C14: after parsing, the metadata has exactly the keys of the whole-line
\* tags of the input, and metadata[key] is the trimmed rest of the last line
\* carrying that key.
C14_LastTagWins ==
  (op = "parseLRC" /\ input # <<>>) =>
    /\ DOMAIN metadata = {KeyAt(input, j) : j \in TagLines(input)}
    /\ \A j \in TagLines(input) :
         (\A k \in TagLines(input) : KeyAt(input, k) = KeyAt(input, j) => k <= j)
           => metadata[KeyAt(input, j)] = trim(RestAt(input, j))

\* the number a two-digit field is the decimal notation of
FieldValue(field) == 10 * DigitValue(field[1]) + DigitValue(field[2])

\* C15: the time recorded for the timed line [mm:ss.cc]text is
\* 6000*mm + 100*ss + cc centiseconds, for every two-digit mm, ss and cc.
C15_TimeOfTimestamp ==
  (op = "parseLRC" /\ Len(input) = 11 /\ TagAt(input, 1)) =>
    /\ Len(lyrics) = 1
    /\ lyrics[1].time = 6000 * FieldValue(SubSeq(input, 2, 3))
                          + 100 * FieldValue(SubSeq(input, 5, 6))
                          + FieldValue(SubSeq(input, 8, 9))

\* the line [08:59.09]a was parsed: fields with a leading zero, and all
\* three fields taking part in the time
C15_LeadingZeroFields ==
  /\ op = "parseLRC"
  /\ input = Tag(<<"0", "8">>, <<"5", "9">>, <<"0", "9">>) \o <<"a">>
  /\ Len(lyrics) = 1
  /\ lyrics[1].time = 53909

\* the lyric lines of an input in the order the loop of parseLRC collects them
Collected(lrcContent) ==
  parseLines([lyrics |-> <<>>, metadata |-> EmptyMetadata],
             split(lrcContent)).lyrics

\* the lines of s whose time is t, in the order they have in s
AtTime(s, t) == SelectSeq(s, LAMBDA line : line.time = t)

\* C16: the stored lines of equal time are in the order they had in the input.
C16_TiesKeepInputOrder ==
  (op = "parseLRC" /\ input # <<>>) =>
    \A i \in 1..Len(lyrics) :
      AtTime(lyrics, lyrics[i].time) = AtTime(Collected(input), lyrics[i].time)

\* two lines of equal time and different text were parsed and are stored
\* next to each other
C16_EqualTimesParsed ==
  /\ op = "parseLRC"
  /\ input # <<>>
  /\ \E i \in 1..(Len(lyrics) - 1) :
       /\ lyrics[i].time = lyrics[i + 1].time
       /\ lyrics[i].text # lyrics[i + 1].text

\* the trimmed lines of an input that have the shape [mm:ss.cc]text
TimedLines(lrcContent) ==
  {trim(split(lrcContent)[j]) : j \in {k \in 1..Len(split(lrcContent)) :
                                         TagAt(trim(split(lrcContent)[k]), 1)}}

\* C20: every line of the shape [mm:ss.cc]text of the input is stored as a
\* lyric line with the time of its tag and its trimmed text, is not stored
\* as a metadata entry, and an input of one such line gives one lyric line.
C20_TimedLineIsLyricLine ==
  (op = "parseLRC" /\ input # <<>>) =>
    /\ \A line \in TimedLines(input) :
         /\ \E i \in 1..Len(lyrics) :
              lyrics[i] = [time |-> TagTime(line),
                           text |-> trim(SubSeq(line, 11, Len(line)))]
         /\ SubSeq(line, 2, 3) \notin DOMAIN metadata
    /\ (Len(split(input)) = 1 /\ TimedLines(input) # {}) => Len(lyrics) = 1

\* a line that has a timestamp tag, but not at its start, and is not a
\* whole-line tag
PrefixedTag(line) ==
  /\ FirstTag(trim(line), 1) > 1
  /\ ~metadataMatch(trim(line)).ok

\* C21: a line with other characters before its timestamp tag is dropped:
\* the stored lyric lines are those of the input without such lines.
C21_PrefixedTagDropped ==
  (op = "parseLRC" /\ input # <<>>) =>
    LET kept == SelectSeq(split(input), LAMBDA line : ~PrefixedTag(line))
        acc == parseLines([lyrics |-> <<>>, metadata |-> EmptyMetadata], kept)
    IN /\ Len(lyrics) = Len(acc.lyrics)
       /\ \A i \in 1..Len(lyrics) :
            \E j \in 1..Len(acc.lyrics) : acc.lyrics[j] = lyrics[i]

\* C22: a getCurrentLyric call that returns null leaves currentIndex, the
\* lines and the metadata as they were.
C22_NullQueryChangesNothing ==
  [][(op' = "getCurrentLyric" /\ ret' = Null) =>
       /\ currentIndex' = currentIndex
       /\ lyrics' = lyrics
       /\ metadata' = metadata]_vars

\* a query before the first line returned null while the cursor was on a line
C22_NullWithCursorOnLine ==
  /\ op = "getCurrentLyric"
  /\ ret = Null
  /\ lyrics # <<>>
  /\ queryTime < lyrics[1].time
  /\ currentIndex >= 0

----------------------------------------------------------------------------
(* Properties of the audio player, checked under Spec *)

\* what the display is to show at playback position t: the text of the line
\* active at t, the filler when that text is empty or no line is active
Expected(t) ==
  IF Active(t) = {} \/ lyrics[Max(Active(t)) + 1].text = <<>> THEN Filler
  ELSE lyrics[Max(Active(t)) + 1].text

\* C2: with lyrics loaded, after every clock tick or seek processed by
\* updateLyrics at time t the displayed text is the text of the line active
\* at t, or the filler when that text is empty or t precedes the first line.
C2_DisplayShowsActiveLine ==
  (op \in {"timeupdate", "seekTo"} /\ hasLyrics(Parser)) =>
    display = Expected(queryTime)

\* C3: while the lyric fetch of a changeTrack call is in flight,
\* getCurrentLyric returns null for every time.
C3_NothingQueryableWhileFetching ==
  fetching # <<>> =>
    \A t \in PlayTimes : getCurrentLyric(Parser, t).value = Null

\* C5: a fetch that succeeds with a body of zero lyric lines (the empty body
\* included) ends as a failed fetch does: hasLyrics is false, getCurrentLyric
\* returns null and the filler is displayed.
C5_NoLinesIsLikeFailure ==
  (op = "fetchOk" /\ parseLRC(NewParser, input).lyrics = <<>>) =>
    /\ ~hasLyrics(Parser)
    /\ \A t \in PlayTimes : getCurrentLyric(Parser, t).value = Null
    /\ display = Filler

\* C6: when the lyric fetch fails, or the new track has no lyrics URL, the
\* parser state is cleared and the filler is displayed.
C6_FailureClearsAndShowsFiller ==
  (op = "fetchFail" \/ (op = "changeTrack" /\ LyricsOf(currentTrack) = "none")) =>
    /\ lyrics = <<>>
    /\ metadata = EmptyMetadata
    /\ currentIndex = -1
    /\ display = Filler

\* a fetch failed while lines were loaded and a line had been matched
C6_FailedOverLoadedLyrics ==
  /\ op = "fetchFail"
  /\ prevIndex >= 0
  /\ lyrics = <<>>

\* two changeTrack calls overlapped and both lyric fetches have completed, the
\* last step being the completion of the later one: both calls now wait for
\* their preload, in the order their fetches completed
BothFetchesCompleted ==
  /\ op \in {"fetchOk", "fetchFail"}
  /\ fetching = <<>>
  /\ Len(preloading) = 2
  /\ preloading[1].lyricsUrl # "none"
  /\ preloading[2].lyricsUrl # "none"

\* C12: when two changeTrack calls overlap, the lyric state after both
\* fetches have completed is the one the fetch that completed last produces
\* (the lines and metadata of its body, or nothing when it failed), whichever
\* call was issued first.
C12_LastCompletedFetchWins ==
  BothFetchesCompleted =>
    IF op = "fetchOk"
    THEN /\ lyrics = parseLRC(NewParser, input).lyrics
         /\ metadata = parseLRC(NewParser, input).metadata
    ELSE /\ lyrics = <<>>
         /\ metadata = EmptyMetadata

\* C17: after a lyric fetch has failed and until changeTrack is called again,
\* no step issues a fetch, the parser holds no line and the display shows the
\* filler, clock ticks included.
C17_NoRecoveryWithoutChangeTrack ==
  [][failedFetch' =>
       /\ lyrics' = <<>>
       /\ display' = Filler
       /\ (failedFetch => Len(fetching') <= Len(fetching))]_vars

\* C18: a failed lyric fetch fires no callback and leaves its changeTrack
\* call waiting for the preload of the audio track; when canplaythrough
\* comes, onTrackChange fires for every waiting call, those whose lyric
\* fetch failed included, and onError only for calls that were playing
\* (from their play()).
C18_TrackChangeSurvivesLyricFailure ==
  [][/\ op' = "fetchFail" =>
          /\ fired' = <<>>
          /\ Len(preloading') = Len(preloading) + 1
          /\ preloading'[Len(preloading')].fetch = "failed"
          /\ media' = "loading"
     /\ op' = "canplaythrough" =>
          /\ SelectSeq(fired', LAMBDA f : f.event = "onTrackChange")
               = [i \in 1..Len(preloading) |-> TrackChanged(preloading[i], i)]
          /\ \A k \in 1..Len(fired') :
               fired'[k].event = "onError" => preloading[fired'[k].by].wasPlaying]_vars

\* canplaythrough came for a call whose lyric fetch had failed, and
\* onTrackChange fired for it
C18_TrackChangedAfterLyricFailure ==
  /\ op = "canplaythrough"
  /\ \E i \in 1..Len(fired) :
       /\ fired[i].event = "onTrackChange"
       /\ fired[i].fetch = "failed"
  /\ \A i \in 1..Len(fired) : fired[i].event # "onError"

\* C19: when a clock tick resolves to the same line index as the clock tick
\* just before it, it leaves the displayed text unchanged.
C19_SameIndexWritesOnce ==
  [][(/\ op = "timeupdate" /\ ret.kind = "lyric"
      /\ op' = "timeupdate" /\ ret'.kind = "lyric"
      /\ ret'.index = ret.index) => display' = display]_vars

\* two clock ticks in a row resolved to the same line, the second at a later
\* playback position, and the text of that line is displayed
C19_TickedTwiceOnOneLine ==
  /\ repeatedTick
  /\ queryTime > ret.time
  /\ ret.text # <<>>
  /\ display = ret.text

\* C23: once the lyric load of a changeTrack call has completed and no other
\* is in flight, the text the player has written on the display is the
\* filler or the text of a line of the lyrics now loaded.
C23_DisplayIsOfLoadedLyrics ==
  (op \in {"fetchOk", "fetchFail"} /\ fetching = <<>> /\ display # InitialText) =>
    \/ display = Filler
    \/ \E i \in 1..Len(lyrics) : lyrics[i].text = display

\* the lines a load for a track can leave: those of a body served for its
\* lyrics URL, or none (no URL, a failed fetch, a body without lyric lines)
LyricsFor(track) ==
  IF LyricsOf(track) = "none" THEN {<<>>}
  ELSE {<<>>} \cup {parseLRC(NewParser, body).lyrics : body \in Served(LyricsOf(track))}

\* C24: once no lyric fetch is in flight, the loaded lines are those of the
\* track requested last (currentTrack), or none.
C24_LyricsOfCurrentTrack ==
  (fetching = <<>> /\ currentTrack # "none") => lyrics \in LyricsFor(currentTrack)

\* the number of onTrackChange and onError callbacks in s fired by call i
FiredBy(s, i) ==
  Cardinality({k \in 1..Len(s) : /\ s[k].by = i
                                 /\ s[k].event \in {"onTrackChange", "onError"}})

\* C25: a changeTrack call with a track URL ends, when its preload succeeds
\* or fails, by firing exactly one onTrackChange or onError callback; a call
\* with an empty URL changes nothing and fires nothing.
C25_OneCallbackPerCall ==
  [][/\ op' \in {"canplaythrough", "error"} =>
          \A i \in 1..Len(preloading) : FiredBy(fired', i) = 1
     /\ op' = "changeTrackIgnored" =>
          /\ fired' = <<>>
          /\ UNCHANGED <<lyrics, metadata, currentIndex, isPlaying,
                         currentTrack, display, currentTime, paused, media,
                         fetching, preloading>>]_vars

\* C26: a play() rejected with NotAllowedError fires no callback, leaves
\* isPlaying as it was and the element paused; a play() that fails otherwise
\* fires onError once with the current track; play() without a current
\* track changes nothing and fires nothing.
C26_PlayFailures ==
  [][/\ op' = "playNotAllowed" =>
          /\ fired' = <<>>
          /\ isPlaying' = isPlaying
          /\ paused'
     /\ op' = "playFailed" =>
          /\ Len(fired') = 1
          /\ fired'[1].event = "onError"
          /\ fired'[1].track = currentTrack
          /\ currentTrack # "none"
     /\ op' = "playNoTrack" =>
          /\ fired' = <<>>
          /\ UNCHANGED <<lyrics, metadata, currentIndex, isPlaying,
                         currentTrack, display, currentTime, paused, media,
                         fetching, preloading>>]_vars

\* play() was rejected with NotAllowedError on a loaded track that is not
\* playing
C26_PlayNotAllowed ==
  /\ op = "playNotAllowed"
  /\ media = "ready"
  /\ ~isPlaying
  /\ paused
  /\ fired = <<>>

----------------------------------------------------------------------------
(* Properties of the theme switcher *)

\* C27: at most one switchTheme call is in progress, and a switchTheme call
\* made while isTransitioning is true, or for the current theme, changes
\* nothing of the switcher and triggers no event
C27_OneTransitionAtATime ==
  [][/\ Len(switching') <= 1
     /\ (/\ themeOp' = "switchTheme"
         /\ (isTransitioning \/ themeArg' = currentThemeIndex))
        => /\ UNCHANGED <<currentThemeIndex, isTransitioning, saved,
                          switching, requested, trail, callbacks>>
           /\ triggered' = <<>>]_vars

\* a switchTheme call for another theme has returned at once during a
\* transition
C27_CalledDuringTransition ==
  /\ themeOp = "switchTheme"
  /\ isTransitioning
  /\ Len(switching) = 1
  /\ themeArg \in THEMES \ {currentThemeIndex, switching[1].to}
  /\ triggered = <<>>

\* the last event of the trail is name
TrailEndsWith(name) == trail # <<>> /\ trail[Len(trail)].event = name

\* the trail is an onTransitionStart, then at most one onThemeChange, for the
\* theme that start named, then at most one onTransitionEnd; and a switch is
\* in progress exactly from its start to its end
TrailInOrder ==
  /\ trail # <<>> =>
       /\ trail[1].event = "onTransitionStart"
       /\ \A k \in 2..Len(trail) :
            /\ trail[k].event = "onThemeChange" =>
                 k = 2 /\ trail[k].data.index = trail[1].data.to
            /\ trail[k].event = "onTransitionEnd" => k = Len(trail)
  /\ isTransitioning <=> (trail # <<>> /\ ~TrailEndsWith("onTransitionEnd"))

\* C28: every onTransitionStart is followed by exactly one onTransitionEnd,
\* after which isTransitioning is false, whether the switch changed the theme
\* or failed; an onThemeChange comes between the two and is for the theme the
\* start named
C28_StartIsFollowedByOneEnd ==
  /\ []TrailInOrder
  /\ (trail # <<>> /\ ~TrailEndsWith("onTransitionEnd"))
       ~> (TrailEndsWith("onTransitionEnd") /\ ~isTransitioning)

\* a switch whose background preload was rejected has ended
C28_EndedAfterFailedPreload ==
  /\ themeOp = "backgroundFailed"
  /\ Len(trail) = 2
  /\ trail[1].event = "onTransitionStart"
  /\ trail[2].event = "onTransitionEnd"
  /\ ~isTransitioning

\* the saved items that are the decimal numeral of an index of THEMES
IndexItems == {Item(toString(i)) : i \in THEMES}

\* C29: currentThemeIndex is always an index of THEMES; a saved item that is
\* not the numeral of one is ignored at startup; a switchTheme call that
\* fails, or is for an index outside THEMES, leaves currentThemeIndex and the
\* saved item as they were; after a successful switch the saved item is the
\* numeral of currentThemeIndex
C29_ThemeIndexValid ==
  /\ [](/\ currentThemeIndex \in THEMES
        /\ (themeOp = "new" /\ saved \notin IndexItems) => currentThemeIndex = 0
        /\ themeOp = "switched" => saved = Item(toString(currentThemeIndex)))
  /\ [][(\/ themeOp' \in {"backgroundFailed", "saveFailed"}
         \/ (themeOp' = "switchTheme" /\ themeArg' \notin THEMES))
        => UNCHANGED <<currentThemeIndex, saved>>]_vars

----------------------------------------------------------------------------
(* Properties of the callback registries *)

\* C30: triggerCallbacks on the player or the switcher calls every callback
\* registered for the event once, in the order of registration, also after
\* one of them has thrown, and does not throw itself; on with a name that is
\* no event of the object registers nothing
C30_EveryCallbackInvoked ==
  [][/\ lastCall'.op = "triggerCallbacks" =>
          LET list == callbacks[lastCall'.object][lastCall'.event]
          IN /\ invoked' = [k \in 1..Len(list) |->
                              [callback |-> list[k], event |-> lastCall'.event]]
             /\ ~thrown'
     /\ (/\ lastCall'.op = "on"
         /\ lastCall'.event \notin DOMAIN callbacks[lastCall'.object])
        => callbacks' = callbacks]_vars

\* an event was triggered whose first callback throws and whose second one
\* does not
C30_TriggeredAfterThrowingCallback ==
  /\ lastCall.op = "triggerCallbacks"
  /\ callbacks[lastCall.object][lastCall.event] = <<"g", "f">>
  /\ Len(invoked) = 2
  /\ ~thrown

====
